---------------------------- MODULE Spec2Model ----------------------------
(***************************************************************************)
(* A model of aarc's UnrolledLinkedList<T, N> (src/utils/                  *)
(* unrolled_linked_list.rs): a chain of segments of N slots each, grown by *)
(* a compare-and-swap on the tail's next pointer, scanned by               *)
(* try_for_each_with_append and walked by iter.                            *)
(*                                                                         *)
(* T is AtomicBool, as in the file's test.  Every atomic access of the     *)
(* code (a slot's compare_exchange or load, a next pointer's load or       *)
(* compare_exchange) is one step of the thread that makes it; the          *)
(* allocation and the release of a speculative segment are steps of their  *)
(* own.  A heap address is never handed out twice, so a pointer to a freed *)
(* segment stays recognisable.                                             *)
(***************************************************************************)
EXTENDS Integers, Sequences, FiniteSets

\* ------------------------------------------------------------ constants

\* Segment width: the const generic N (2 in the file's test).
N == 2

\* The null pointer (null_mut()).
Null == -1

\* The head segment, held by value in the container.
head == 0

\* ------------------------------------------------------------ bounds

\* Threads of the general specification (any predicate).
NumCallers == 2

\* Threads of the claim-first-unclaimed specification (THREADS in the test).
NumClaimers == 5

\* Threads of the never-matching specification, and the heap segments that
\* can be allocated over a run of it.
NumLoopers == 2

MaxNeverNodes == 4

\* Heap segments that can be allocated over a run of the general
\* specification, and of the claim-first-unclaimed one.
MaxNodes == 2

MaxClaimNodes == 5

\* ------------------------------------------------------------ state

VARIABLES
    mem,        \* heap segment -> "unalloc" | "live" | "freed"
    items,      \* segment -> [0..N-1 -> BOOLEAN]: the AtomicBool slots
    next,       \* segment -> segment or Null: the AtomicPtr next
    pc,         \* thread -> position in try_for_each_with_append
    pred,       \* thread -> the predicate f of its call
    curr,       \* thread -> local curr (and local next, once dereferenced)
    idx,        \* thread -> position of the item iterator in curr.items
    new_node,   \* thread -> local new_node
    actual,     \* thread -> the value a failed compare_exchange returned
    result,     \* thread -> the slot whose result the call returned, or <<>>
    ipc,        \* the thread calling iter: "idle" | "walk" | "yield" | "end" | "panic"
    iters,      \* its vec of per-segment item iterators (the segments)
    icurr,      \* its local curr
    yielded,    \* the slots the returned iterator yielded
    \* History of a call and of a walk, read by no action:
    examined,   \* thread -> the slots its call applied f to, in order
    ilen0,      \* the number of linked segments when iter was called
    \* The destruction of the container:
    dpc,        \* "alive" | "descend" | "unwind" | "gone"
    dstack,     \* the segments whose ULLNode::drop is running, outermost first
    dropped,    \* history: the segments in the order their drop began
    released    \* history: the segments in the order their storage was released

vars == <<mem, items, next, pc, pred, curr, idx, new_node, actual,
          result, ipc, iters, icurr, yielded, examined, ilen0,
          dpc, dstack, dropped, released>>

heapVars == <<mem, items, next>>
callVars == <<pc, pred, curr, idx, new_node, actual, result, examined>>
iterVars == <<ipc, iters, icurr, yielded, ilen0>>
dropVars == <<dpc, dstack, dropped, released>>

Nodes == DOMAIN mem
Segs == {head} \cup Nodes
Slots == 0..(N - 1)
Threads == DOMAIN pc

\* std::sync::atomic::Ordering
Orderings == {"Relaxed", "Release", "Acquire", "AcqRel", "SeqCst"}

\* AtomicPtr::load accepts these; it panics on Release and AcqRel.
LoadOrderings == {"Relaxed", "Acquire", "SeqCst"}

\* The predicates f a call may pass:
\*   claim  b.compare_exchange(false, true): Some on success (the test's f)
\*   never  None for every slot
\*   first  Some for every slot
Preds == {"claim", "never", "first"}

\* ------------------------------------------------------------ helpers

\* ULLNode::default(): every slot T::default() (false), next null.
DefaultItemsTaken == [i \in Slots |-> TRUE]

DefaultItems == [i \in Slots |-> FALSE]

DefaultNext == Null

\* alloc_box_ptr: a fresh heap address (the lowest never handed out).
AllocBoxPtr == CHOOSE n \in Nodes : mem[n] = "unalloc" /\ \A m \in Nodes : m < n => mem[m] # "unalloc"

CanAlloc == \E n \in Nodes : mem[n] = "unalloc"

\* ULLNode::drop on the segment p and, through dealloc_box_ptr(next), on
\* its successors: the segments released when p is dropped.
RECURSIVE DropChain(_, _)
DropChain(p, fuel) ==
    IF p = Null \/ fuel = 0 THEN {}
    ELSE {p} \cup DropChain(next[p], fuel - 1)

\* dealloc_box_ptr(p): drops the box at p (running ULLNode::drop) and
\* releases its memory.
DeallocBoxPtr(p) == [n \in Nodes |-> IF n \in DropChain(p, Cardinality(Segs)) THEN "freed" ELSE mem[n]]

\* f(item) for the slot item = curr.items[i]: whether it yields Some.
Matches(f, b) ==
    CASE f = "claim" -> b = FALSE
      [] f = "never" -> FALSE
      [] f = "first" -> TRUE

\* The value f leaves in the slot.
SlotAfter(f, b) == IF f = "claim" THEN TRUE ELSE b

\* The segments linked from the head, in link order.
RECURSIVE ChainFrom(_, _)
ChainFrom(s, fuel) ==
    IF s = Null \/ fuel = 0 THEN <<>>
    ELSE <<s>> \o ChainFrom(next[s], fuel - 1)

Chain == ChainFrom(head, Cardinality(Segs))

ChainLen == Len(Chain)

Linked == {Chain[i] : i \in 1..ChainLen}

\* iters.into_iter().flatten(): each segment's slots in index order.
RECURSIVE FlattenReversed(_)
FlattenReversed(segs) ==
    IF segs = <<>> THEN <<>>
    ELSE [i \in 1..N |-> <<Head(segs), N - i>>] \o FlattenReversed(Tail(segs))

RECURSIVE Flatten(_)
Flatten(segs) ==
    IF segs = <<>> THEN <<>>
    ELSE [i \in 1..N |-> <<Head(segs), i - 1>>] \o Flatten(Tail(segs))

\* ------------------------------------------------------------ initial state

\* UnrolledLinkedList::default(): the head alone, K threads not yet calling,
\* no iterator.
InitOf(K, M) ==
    /\ mem = [n \in 1..M |-> "unalloc"]
    /\ items = [s \in {head} \cup 1..M |-> DefaultItems]
    /\ next = [s \in {head} \cup 1..M |-> DefaultNext]
    /\ pc = [t \in 1..K |-> "idle"]
    /\ pred = [t \in 1..K |-> "none"]
    /\ curr = [t \in 1..K |-> Null]
    /\ idx = [t \in 1..K |-> 0]
    /\ new_node = [t \in 1..K |-> Null]
    /\ actual = [t \in 1..K |-> Null]
    /\ result = [t \in 1..K |-> <<>>]
    /\ ipc = "idle"
    /\ iters = <<>>
    /\ icurr = Null
    /\ yielded = <<>>
    /\ examined = [t \in 1..K |-> <<>>]
    /\ ilen0 = 0
    /\ dpc = "alive"
    /\ dstack = <<>>
    /\ dropped = <<>>
    /\ released = <<>>

\* ------------------------------------------------------------ try_for_each_with_append

\* Threads are interchangeable: thread t starts after thread t - 1 has
\* (the spawn loop of the test runs in this order).
MayStart(t) == pc[t] = "idle" /\ (IF t = 1 THEN TRUE ELSE pc[t - 1] # "idle")

\* let mut curr = &self.head; loop { for item in curr.items.iter() ...
Enter(t, f) ==
    /\ pc' = [pc EXCEPT ![t] = "scan"]
    /\ pred' = [pred EXCEPT ![t] = f]
    /\ curr' = [curr EXCEPT ![t] = head]
    /\ idx' = [idx EXCEPT ![t] = 0]
    /\ UNCHANGED <<dropVars, heapVars, new_node, actual, result, examined, iterVars>>

\* A call with any predicate, at any time.
Call(t) ==
    /\ MayStart(t)
    /\ \E f \in Preds : Enter(t, f)

\* for item in curr.items.iter(): the loop ends after the item at index i
\* when i is the last of the N.
ExhaustedEarly(i) == i + 1 >= N - 1

Exhausted(i) == i + 1 >= N

\* if let Some(result) = f(item) { return result; }  and the for loop's
\* step to the next item, or its end.
Scan(t) ==
    /\ pc[t] = "scan"
    /\ LET b == items[curr[t]][idx[t]] IN
       IF Matches(pred[t], b)
       THEN /\ items' = [items EXCEPT ![curr[t]][idx[t]] = SlotAfter(pred[t], b)]
            /\ result' = [result EXCEPT ![t] = <<curr[t], idx[t]>>]
            /\ pc' = [pc EXCEPT ![t] = "done"]
            /\ idx' = idx
       ELSE /\ items' = [items EXCEPT ![curr[t]][idx[t]] = SlotAfter(pred[t], b)]
            /\ result' = result
            /\ pc' = [pc EXCEPT ![t] = IF Exhausted(idx[t]) THEN "load" ELSE "scan"]
            /\ idx' = [idx EXCEPT ![t] = IF Exhausted(idx[t]) THEN 0 ELSE idx[t] + 1]
    /\ examined' = [examined EXCEPT ![t] = Append(@, <<curr[t], idx[t]>>)]
    /\ UNCHANGED <<dropVars, mem, next, pred, curr, new_node, actual, iterVars>>

\* next.is_null()
IsTailAlways(p) == TRUE

IsTail(p) == p = Null

\* What follows a next read as null: the body of if next.is_null() { ... },
\* which begins with the allocation.  There is no return here.
AtTailGiveUp == "done"

AtTailWait == "load"

AtTail == "alloc"

\* let mut next = curr.next.load(SeqCst); if next.is_null() { ... }
\* and, for a successor already linked, curr = &*next.
LoadNext(t) ==
    /\ pc[t] = "load"
    /\ LET p == next[curr[t]] IN
       IF IsTail(p)
       THEN /\ pc' = [pc EXCEPT ![t] = AtTail]
            /\ curr' = curr
       ELSE /\ pc' = [pc EXCEPT ![t] = "scan"]
            /\ curr' = [curr EXCEPT ![t] = p]
    /\ UNCHANGED <<dropVars, heapVars, pred, idx, new_node, actual, result, examined, iterVars>>

\* let new_node = alloc_box_ptr(ULLNode::default());
Alloc(t) ==
    /\ pc[t] = "alloc"
    /\ CanAlloc
    /\ LET n == AllocBoxPtr IN
       /\ mem' = [mem EXCEPT ![n] = "live"]
       /\ items' = [items EXCEPT ![n] = DefaultItems]
       /\ next' = [next EXCEPT ![n] = DefaultNext]
       /\ new_node' = [new_node EXCEPT ![t] = n]
    /\ pc' = [pc EXCEPT ![t] = "cas"]
    /\ UNCHANGED <<dropVars, pred, curr, idx, actual, result, examined, iterVars>>

\* compare_exchange(null_mut(), new_node, SeqCst, SeqCst) on a cell holding
\* cur: it succeeds, and stores, only when cur is the expected null.
CasAlways(cur) == TRUE

CasOk(cur) == cur = Null

\* Where a call continues once it has linked its segment: curr = &*next and
\* the loop begins again with the scan of curr.items.
AfterLinkLoad == "load"

AfterLink == "scan"

\* match curr.next.compare_exchange(null_mut(), new_node, SeqCst, SeqCst)
\*   Ok(_) => next = new_node, then curr = &*next
\*   Err(actual) => the Err arm is entered with actual bound
Cas(t) ==
    /\ pc[t] = "cas"
    /\ IF CasOk(next[curr[t]])
       THEN /\ next' = [next EXCEPT ![curr[t]] = new_node[t]]
            /\ curr' = [curr EXCEPT ![t] = new_node[t]]
            /\ new_node' = [new_node EXCEPT ![t] = Null]
            /\ actual' = actual
            /\ pc' = [pc EXCEPT ![t] = AfterLink]
       ELSE /\ next' = next
            /\ curr' = curr
            /\ new_node' = new_node
            /\ actual' = [actual EXCEPT ![t] = next[curr[t]]]
            /\ pc' = [pc EXCEPT ![t] = "dealloc"]
    /\ UNCHANGED <<dropVars, mem, items, pred, idx, result, examined, iterVars>>

\* The segment the scan continues in after a failed compare_exchange:
\* next = actual.
AfterLostRaceRetry(t) == curr[t]

AfterLostRaceOwn(t) == new_node[t]

AfterLostRace(t) == actual[t]

\* The segment released after a failed compare_exchange:
\* dealloc_box_ptr(new_node).
DiscardedActual(t) == actual[t]

Discarded(t) == new_node[t]

\* Err(actual) => unsafe { dealloc_box_ptr(new_node); next = actual; }
\* then curr = &*next.
Dealloc(t) ==
    /\ pc[t] = "dealloc"
    /\ mem' = DeallocBoxPtr(Discarded(t))
    /\ curr' = [curr EXCEPT ![t] = AfterLostRace(t)]
    /\ new_node' = [new_node EXCEPT ![t] = Null]
    /\ actual' = [actual EXCEPT ![t] = Null]
    /\ pc' = [pc EXCEPT ![t] = "scan"]
    /\ UNCHANGED <<dropVars, items, next, pred, idx, result, examined, iterVars>>

\* ------------------------------------------------------------ iter

\* let mut iters = vec![self.items.iter()];  (self is the head)
FirstItersEmpty == <<>>

FirstIters == <<head>>

\* UnrolledLinkedList::iter -> ULLNode::iter on the head:
\* let mut iters = vec![self.items.iter()]; let mut curr = self.next.load(order);
\* The load panics for an order that is no load ordering.
Iter(order) ==
    /\ ipc = "idle"
    /\ iters' = FirstIters
    /\ ilen0' = ChainLen
    /\ IF order \in LoadOrderings
       THEN /\ icurr' = next[head]
            /\ ipc' = "walk"
       ELSE /\ icurr' = Null
            /\ ipc' = "panic"
    /\ UNCHANGED <<dropVars, heapVars, callVars, yielded>>

\* (*curr).next.load(order): the successor of the segment p, as linked at
\* the time of the load.
WalkNextNone(p) == Null

WalkNext(p) == next[p]

\* while !curr.is_null() { iters.push((*curr).items.iter());
\*                         curr = (*curr).next.load(order); }
\* (order is a load ordering here: the first load did not panic)
\* iters.into_iter().flatten()
IterWalk ==
    /\ ipc = "walk"
    /\ IF icurr # Null
       THEN /\ iters' = Append(iters, icurr)
            /\ icurr' = WalkNext(icurr)
            /\ ipc' = ipc
       ELSE /\ iters' = iters
            /\ icurr' = icurr
            /\ ipc' = "yield"
    /\ UNCHANGED <<dropVars, heapVars, callVars, yielded, ilen0>>

\* The caller consumes the returned iterator to its end (Iterator::next until
\* None): no shared state is read or written by it, so it is one step.
IterConsume ==
    /\ ipc = "yield"
    /\ yielded' = Flatten(iters)
    /\ ipc' = "end"
    /\ UNCHANGED <<dropVars, heapVars, callVars, iters, icurr, ilen0>>

\* ------------------------------------------------------------ specifications

Init == InitOf(NumCallers, MaxNodes)

Next ==
    \/ \E t \in Threads : Call(t)
    \/ \E t \in Threads : Scan(t)
    \/ \E t \in Threads : LoadNext(t)
    \/ \E t \in Threads : Alloc(t)
    \/ \E t \in Threads : Cas(t)
    \/ \E t \in Threads : Dealloc(t)
    \/ \E order \in Orderings : Iter(order)
    \/ IterWalk
    \/ IterConsume

\* Any calls with any predicates, and one iter walk, in any interleaving.
Spec == Init /\ [][Next]_vars

\* ------------------------------------------------------------ the test's scenario

\* s.spawn(|| { ull.try_for_each_with_append(|b| match
\*     b.compare_exchange(false, true, SeqCst, SeqCst) { ... }) })
\* inside thread::scope: no thread is spawned once the scope has ended.
Spawn(t) ==
    /\ MayStart(t)
    /\ ipc = "idle"
    /\ Enter(t, "claim")

\* Every spawned call has returned.
AllReturned == \A t \in Threads : pc[t] \in {"idle", "done"}

\* The end of thread::scope (every spawned thread joined), then
\* ull.iter(SeqCst).
JoinIter ==
    /\ AllReturned
    /\ Iter("SeqCst")

InitClaim == InitOf(NumClaimers, MaxClaimNodes)

NextClaim ==
    \/ \E t \in Threads : Spawn(t)
    \/ \E t \in Threads : Scan(t)
    \/ \E t \in Threads : LoadNext(t)
    \/ \E t \in Threads : Alloc(t)
    \/ \E t \in Threads : Cas(t)
    \/ \E t \in Threads : Dealloc(t)
    \/ JoinIter
    \/ IterWalk
    \/ IterConsume

\* K <= NumClaimers threads each claim the first unclaimed slot; once all
\* have returned the container is iterated.
SpecClaim == InitClaim /\ [][NextClaim]_vars

\* One step of thread t's call.
Step(t) == Scan(t) \/ LoadNext(t) \/ Alloc(t) \/ Cas(t) \/ Dealloc(t)

\* The test's scenario with every running thread scheduled again and again
\* (threads are preemptively scheduled; none waits for another).
SpecClaimFair == SpecClaim /\ \A t \in 1..NumClaimers : WF_vars(Step(t))

\* ------------------------------------------------------------ a predicate that never matches

\* ull.try_for_each_with_append(|_| None)
CallNever(t) ==
    /\ MayStart(t)
    /\ Enter(t, "never")

InitNever == InitOf(NumLoopers, MaxNeverNodes)

NextNever ==
    \/ \E t \in Threads : CallNever(t)
    \/ \E t \in Threads : Scan(t)
    \/ \E t \in Threads : LoadNext(t)
    \/ \E t \in Threads : Alloc(t)
    \/ \E t \in Threads : Cas(t)
    \/ \E t \in Threads : Dealloc(t)

\* Calls whose predicate yields None for every slot, every running thread
\* scheduled again and again.
SpecNever == InitNever /\ [][NextNever]_vars /\ \A t \in 1..NumLoopers : WF_vars(Step(t))

\* ------------------------------------------------------------ teardown

\* The container goes out of scope: it can only when nothing borrows it (no
\* call in progress, no iterator being built or consumed).  Its drop glue
\* runs ULLNode::drop on the head.
DropBegin ==
    /\ dpc = "alive"
    /\ AllReturned
    /\ ipc \in {"idle", "end"}
    /\ dpc' = "descend"
    /\ dstack' = <<head>>
    /\ dropped' = <<head>>
    /\ UNCHANGED <<released, heapVars, callVars, iterVars>>

\* let next = self.next.load(SeqCst);
DropSuccessorNone(s) == Null

DropSuccessor(s) == next[s]

\* ULLNode::drop on the innermost segment: if !next.is_null() {
\* dealloc_box_ptr(next) }, which runs ULLNode::drop on the successor before
\* it releases it; at the tail drop has nothing to do and returns.
DropDescend ==
    /\ dpc = "descend"
    /\ LET p == DropSuccessor(dstack[Len(dstack)]) IN
       IF p # Null
       THEN /\ dstack' = Append(dstack, p)
            /\ dropped' = Append(dropped, p)
            /\ dpc' = dpc
       ELSE /\ dstack' = dstack
            /\ dropped' = dropped
            /\ dpc' = "unwind"
    /\ UNCHANGED <<released, heapVars, callVars, iterVars>>

\* The state of a heap segment's storage once it is released: releasing
\* what is not live (a second release) corrupts the heap.
ReleasedFrom(m) == IF m = "live" THEN "freed" ELSE "corrupt"

\* The innermost ULLNode::drop returns: its segment's storage is released,
\* by the dealloc_box_ptr that called it or, for the head, with the
\* container; the caller's drop has nothing left to do and returns next.
DropUnwind ==
    /\ dpc = "unwind"
    /\ LET s == dstack[Len(dstack)] IN
       /\ released' = Append(released, s)
       /\ mem' = IF s = head THEN mem ELSE [mem EXCEPT ![s] = ReleasedFrom(mem[s])]
    /\ dstack' = SubSeq(dstack, 1, Len(dstack) - 1)
    /\ dpc' = IF Len(dstack) = 1 THEN "gone" ELSE "unwind"
    /\ UNCHANGED <<items, next, dropped, callVars, iterVars>>

\* One step of the test's scenario while the container is alive.
LiveStep == dpc = "alive" /\ NextClaim

NextTeardown ==
    \/ LiveStep
    \/ DropBegin
    \/ DropDescend
    \/ DropUnwind

\* The test's scenario, the container destroyed at some point after the calls
\* have returned (the end of the test function).
SpecTeardown == InitClaim /\ [][NextTeardown]_vars

\* ------------------------------------------------------------ claims C1 - C3

\* The calls that have returned, and their number K once all have.
Returned == {t \in Threads : pc[t] = "done"}

\* The slots of the linked chain that hold true.
ClaimedSlots == {sl \in Linked \X Slots : items[sl[1]][sl[2]]}

\* The slots of the linked chain, in iteration order.
ChainSlots == Flatten(Chain)

\* ceil(k / n)
CeilDiv(k, n) == (k + n - 1) \div n

\* C1: no lost updates.  Once all K claim-first-unclaimed calls have returned,
\* every call claimed one slot of the chain, no two calls claimed the same
\* slot, exactly K slots of the chain are claimed, and every other slot (of
\* the chain or of a discarded segment) is unclaimed.
C1_NoLostUpdates ==
    AllReturned =>
        /\ \A t \in Returned : result[t] \in ClaimedSlots
        /\ \A t, u \in Returned : t # u => result[t] # result[u]
        /\ ClaimedSlots = {result[t] : t \in Returned}
        /\ Cardinality(ClaimedSlots) = Cardinality(Returned)
        /\ \A s \in Segs \ Linked : \A i \in Slots : ~items[s][i]

\* All NumClaimers calls have returned, and a thread lost a link race on the way.
C1_Witness ==
    /\ Cardinality(Returned) = NumClaimers
    /\ \E n \in Nodes : mem[n] = "freed"

\* C2 as stated: with K claiming threads the final chain has ceil(K / N)
\* segments, the head counted.
C2_AsStated == AllReturned => ChainLen = CeilDiv(Cardinality(Returned), N)

\* C2 amended: the final chain has ceil(K / N) segments for K >= 1, and the
\* head alone for K = 0; never more and never fewer.
C2_MinimalGrowth ==
    AllReturned =>
        ChainLen = (IF Cardinality(Returned) = 0 THEN 1
                    ELSE CeilDiv(Cardinality(Returned), N))

\* All NumClaimers calls have returned after a link race, and the chain has
\* ceil(NumClaimers / N) segments.
C2_Witness ==
    /\ Cardinality(Returned) = NumClaimers
    /\ ChainLen = CeilDiv(NumClaimers, N)
    /\ ChainLen > 1
    /\ Cardinality({n \in Nodes : mem[n] = "freed"}) >= 2

\* C3: after the K calls have returned (the scope has ended), the iterator
\* yields the chain's slots in chain order, and the slot at position i
\* (from 0) holds true iff i < K.
C3_ClaimedPrefix ==
    ipc = "end" =>
        /\ Len(yielded) = N * ChainLen
        /\ \A i \in 1..Len(yielded) :
              items[yielded[i][1]][yielded[i][2]] = (i - 1 < Cardinality(Returned))
        /\ \A i \in 1..Len(yielded) :
              /\ yielded[i][1] = Chain[((i - 1) \div N) + 1]
              /\ yielded[i][2] = (i - 1) % N

\* The test's scenario: N = 2, 5 threads, 3 segments, 6 slots yielded, the
\* last one unclaimed.
C3_Witness ==
    /\ ipc = "end"
    /\ Cardinality(Returned) = NumClaimers
    /\ Len(yielded) = N * CeilDiv(NumClaimers, N)
    /\ ~items[yielded[Len(yielded)][1]][yielded[Len(yielded)][2]]

\* ------------------------------------------------------------ claims C4 - C7

\* C4: no double-link.  A segment's next changes at most once, from null to a
\* segment: once a segment has a successor, no step changes it.
C4_NoDoubleLink ==
    [][\A s \in Segs : next[s] # Null => next'[s] = next[s]]_vars

\* A compare_exchange was attempted on a segment that already had a successor:
\* its thread lost and the successor is the one linked first.
C4_Witness ==
    \E t \in Threads :
        /\ pc[t] = "dealloc"
        /\ next[curr[t]] # Null
        /\ next[curr[t]] # new_node[t]

\* C5: single winner per tail.  A compare_exchange on the tail s succeeds
\* exactly when no successor is linked yet, and then links the thread's own
\* segment; any later one on s fails, leaves the link alone, and its thread
\* goes on in the segment that is linked (the value the failed
\* compare_exchange returned), not in its own allocation.
C5_SingleWinner ==
    [][\A t \in Threads :
          /\ (pc[t] = "cas" /\ pc'[t] # "cas") =>
                LET s == curr[t] IN
                /\ next'[s] # Null
                /\ next[s] = Null =>
                      /\ next'[s] = new_node[t]
                      /\ curr'[t] = new_node[t]
                      /\ pc'[t] = "scan"
                /\ next[s] # Null =>
                      /\ next'[s] = next[s]
                      /\ actual'[t] = next[s]
                      /\ curr'[t] = s
                      /\ pc'[t] = "dealloc"
          /\ (pc[t] = "dealloc" /\ pc'[t] # "dealloc") =>
                /\ curr'[t] = next[curr[t]]
                /\ curr'[t] # new_node[t]
                /\ curr'[t] \in Linked
                /\ new_node[t] \notin Linked
                /\ next' = next
                /\ pc'[t] = "scan"
                /\ idx'[t] = 0]_vars

\* Two threads raced for the same tail: one lost and is about to release its
\* segment, the other won and is scanning the segment it linked.
C5_Witness ==
    \E t, u \in Threads :
        /\ t # u
        /\ pc[t] = "dealloc"
        /\ pc[u] = "scan"
        /\ curr[u] = next[curr[t]]
        /\ examined[u] = examined[t]

\* The threads that hold the heap segment n as their new_node.
Holders(n) == {t \in Threads : new_node[t] = n}

\* No thread's curr, no link and no iterator refers to n.
Unseen(n) ==
    /\ \A t \in Threads : curr[t] # n /\ actual[t] # n
    /\ \A s \in Segs : next[s] # n
    /\ icurr # n
    /\ \A i \in 1..Len(iters) : iters[i] # n
    /\ \A i \in 1..Len(yielded) : yielded[i][1] # n

\* Every heap segment is unallocated, or linked in the chain, or held by the
\* one thread that allocated it and seen by nothing else, or freed and seen
\* by nothing.
SegmentOwned(n) ==
    CASE mem[n] = "unalloc" -> Holders(n) = {} /\ Unseen(n)
      [] mem[n] = "freed" -> Holders(n) = {} /\ Unseen(n)
      [] mem[n] = "live" ->
            \/ n \in Linked /\ Holders(n) = {}
            \/ /\ n \notin Linked
               /\ Unseen(n)
               /\ Cardinality(Holders(n)) = 1
               /\ \A t \in Holders(n) : pc[t] \in {"cas", "dealloc"}

\* C6: speculative segments are discarded safely.  SegmentOwned holds of
\* every heap segment at all times; a segment is freed only by the thread
\* that holds it after its compare_exchange failed, while it is unlinked; and
\* a freed segment stays freed (it is freed once).
C6_SpeculativeDiscard ==
    /\ [](\A n \in Nodes : SegmentOwned(n))
    /\ [][\A n \in Nodes :
            /\ (mem[n] # "freed" /\ mem'[n] = "freed") =>
                  /\ mem[n] = "live"
                  /\ n \notin Linked
                  /\ \E t \in Threads :
                        /\ Holders(n) = {t}
                        /\ pc[t] = "dealloc"
                        /\ pc'[t] = "scan"
                        /\ next[curr[t]] \notin {Null, n}
            /\ mem[n] = "freed" => mem'[n] = "freed"]_vars

\* A thread lost a race and has freed its segment, while the winner's is
\* linked.
C6_Witness ==
    \E n \in Nodes :
        /\ mem[n] = "freed"
        /\ ChainLen > 1

\* a is a prefix of b.
IsPrefix(a, b) == Len(a) <= Len(b) /\ \A i \in 1..Len(a) : a[i] = b[i]

\* The position (from 1) of segment s in the chain, 0 if it is not linked.
PosOf(s) == IF s \in Linked THEN CHOOSE i \in 1..ChainLen : Chain[i] = s ELSE 0

\* C7: scan order and growth condition.  A call has applied f to a prefix of
\* the chain's slots, in chain order from the head, and is at the slot that
\* follows; it returns exactly at the first slot where f yields a result, with
\* that slot's result, changing no link and no allocation, and examines
\* nothing after it; it turns to
\* allocating only from the load of a null next, having applied f without a
\* match to every slot of the whole chain; and a segment is allocated only by
\* a thread that did so.
C7_ScanOrderGrowth ==
    /\ [](\A t \in Threads :
            /\ IsPrefix(examined[t], ChainSlots)
            /\ pc[t] = "scan" =>
                  /\ curr[t] \in Linked
                  /\ Len(examined[t]) = N * (PosOf(curr[t]) - 1) + idx[t]
            /\ pc[t] \in {"load", "alloc", "cas", "dealloc"} =>
                  /\ curr[t] \in Linked
                  /\ Len(examined[t]) = N * PosOf(curr[t])
            /\ pc[t] = "done" =>
                  /\ examined[t] # <<>>
                  /\ result[t] = examined[t][Len(examined[t])])
    /\ [][\A t \in Threads :
            /\ (pc[t] = "scan" /\ examined'[t] # examined[t]) =>
                  /\ examined'[t] = Append(examined[t], <<curr[t], idx[t]>>)
                  /\ (pc'[t] = "done") = Matches(pred[t], items[curr[t]][idx[t]])
                  /\ pc'[t] = "done" => result'[t] = <<curr[t], idx[t]>>
                  /\ next' = next
                  /\ mem' = mem
            /\ (pc[t] # "done" /\ pc'[t] = "done") =>
                  pc[t] = "scan" /\ examined'[t] # examined[t]
            /\ pc[t] = "done" =>
                  pc'[t] = "done" /\ examined'[t] = examined[t] /\ result'[t] = result[t]
            /\ (pc[t] # "alloc" /\ pc'[t] = "alloc") =>
                  /\ pc[t] = "load"
                  /\ next[curr[t]] = Null
                  /\ examined[t] = ChainSlots
            /\ \A n \in Nodes : (mem[n] = "unalloc" /\ mem'[n] = "live") =>
                  \E u \in Threads : pc[u] = "alloc" /\ new_node'[u] = n]_vars

\* A call returned the second slot of the head, the first having yielded no
\* result, and the chain is still the head alone.
C7_Witness ==
    \E t \in Threads :
        /\ pc[t] = "done"
        /\ examined[t] = << <<head, 0>>, <<head, 1>> >>
        /\ result[t] = <<head, 1>>
        /\ ChainLen = 1

\* ------------------------------------------------------------ claims C8 - C10

\* A call that has begun and not returned.
Running(t) == pc[t] \notin {"idle", "done"}

\* C8: termination under a satisfiable predicate.  With the claim predicate
\* (which accepts a fresh slot's default value) every call that has begun
\* returns, under fair scheduling; a running call always has a step of its
\* own to take, whatever the other threads do; and a call whose
\* compare_exchange failed returns too.
C8_Termination ==
    /\ \A t \in 1..NumClaimers : Running(t) ~> (pc[t] = "done")
    /\ \A t \in 1..NumClaimers : (pc[t] = "dealloc") ~> (pc[t] = "done")
    /\ [](\A t \in 1..NumClaimers : Running(t) => ENABLED Step(t))

\* Every call has returned, one of them after a failed compare_exchange.
C8_Witness ==
    /\ \A t \in Threads : pc[t] = "done"
    /\ \E n \in Nodes : mem[n] = "freed"
    /\ \E t \in Threads : result[t][1] # head

\* The links the heap bound is sure to allow: a tail costs at most one
\* allocation per thread.
MaxGrowth == CeilDiv(MaxNeverNodes, NumLoopers)

\* C9: no 'not found' outcome.  A call whose predicate never matches never
\* returns, and once it has begun the chain grows past every length the heap
\* bound allows for: it comes to have more than MaxGrowth segments (and so
\* more than L, for every L up to MaxGrowth), and the growth ends only with
\* the heap exhausted.
C9_NeverReturnsGrows ==
    /\ [](\A t \in 1..NumLoopers : pc[t] # "done")
    /\ (\E t \in 1..NumLoopers : Running(t)) ~> (ChainLen > MaxGrowth)
    /\ (\E t \in 1..NumLoopers : Running(t)) ~> ~CanAlloc

\* Two calls raced for a tail, the chain has grown by MaxGrowth segments, and
\* both are still running.
C9_Witness ==
    /\ ChainLen > MaxGrowth
    /\ \E n \in Nodes : mem[n] = "freed"
    /\ \A t \in Threads : Running(t) /\ Len(examined[t]) >= N

\* C10: iteration content and order.  The segments the walk collects are the
\* head and its successors in link order (a prefix of the chain); the
\* iterator yields, once each, slot 0..N-1 of the first collected segment,
\* then of the second, and so on: N times the number of segments collected;
\* and when no segment was linked since iter was called, that is every linked
\* segment.
C10_IterContentOrder ==
    /\ ipc \in {"walk", "yield", "end"} =>
          /\ iters # <<>>
          /\ iters[1] = head
          /\ IsPrefix(iters, Chain)
    /\ ipc \in {"yield", "end"} =>
          (ChainLen = ilen0 => Len(iters) = ChainLen)
    /\ ipc = "end" =>
          /\ Len(yielded) = N * Len(iters)
          /\ \A i \in 1..Len(yielded) :
                yielded[i] = <<iters[((i - 1) \div N) + 1], (i - 1) % N>>
          /\ \A i, j \in 1..Len(yielded) : i # j => yielded[i] # yielded[j]

\* An iterator over a chain of at least two segments, none linked since iter
\* was called, has yielded all their slots.
C10_Witness ==
    /\ ipc = "end"
    /\ ChainLen = ilen0
    /\ ChainLen >= 2
    /\ Len(yielded) = N * ChainLen

\* ------------------------------------------------------------ claims C11 - C13

\* C11: snapshot bounds under concurrent appends.  When the walk of iter ends,
\* the segments it collected are a prefix of the chain as linked at that
\* moment and include every segment linked when iter was called: their
\* number lies between the chain length at the call and the chain length at
\* the walk's end.  From then on the collected segments are fixed, whatever
\* is linked later; the iterator yields N slots for each of them, and
\* nothing more once it has ended.
C11_SnapshotBounds ==
    [][ /\ (ipc = "walk" /\ ipc' = "yield") =>
              /\ ilen0 <= Len(iters')
              /\ Len(iters') <= ChainLen'
              /\ IsPrefix(iters', Chain')
        /\ ipc \in {"yield", "end"} => iters' = iters
        /\ (ipc = "yield" /\ ipc' = "end") =>
              /\ Len(yielded') = N * Len(iters)
              /\ N * ilen0 <= Len(yielded')
        /\ ipc = "end" => yielded' = yielded ]_vars

\* An iterator that has ended included a segment linked during its walk
\* (after iter was called), and yielded its slots.
C11_Witness ==
    /\ ipc = "end"
    /\ ilen0 >= 2
    /\ Len(iters) > ilen0
    /\ Len(yielded) = N * Len(iters)

\* An iterator that has ended did not include a segment linked during its
\* walk.
C11_WitnessMissed ==
    /\ ipc = "end"
    /\ Len(iters) = ilen0
    /\ ChainLen > Len(iters)
    /\ Len(yielded) = N * ilen0

\* The slots thread t's call has applied its predicate to.
ExaminedBy(t) == {examined[t][k] : k \in 1..Len(examined[t])}

\* The segments the walk of iter has collected.
Collected == {iters[k] : k \in 1..Len(iters)}

Reverse(s) == [k \in 1..Len(s) |-> s[Len(s) + 1 - k]]

\* No element occurs twice in the sequence s.
NoRepeat(s) == \A j, k \in 1..Len(s) : j # k => s[j] # s[k]

\* No heap segment is left allocated, and none was released twice.
NoLeakNoDoubleRelease ==
    /\ \A n \in Nodes : mem[n] # "corrupt"
    /\ dpc = "gone" => \A n \in Nodes : mem[n] \in {"unalloc", "freed"}

\* C13 as stated: the destroyed container's M linked segments were each
\* released once, in chain order from the head to the tail.
C13_AsStated ==
    /\ NoLeakNoDoubleRelease
    /\ dpc = "gone" => released = Chain

\* C13: teardown safety.  Destroying a container whose chain has M linked
\* segments runs ULLNode::drop on each in chain order from the head to the
\* tail, and releases each of the M exactly once in the reverse order, the
\* tail first and the head last (a segment's drop returns only after its
\* successor has been released); no segment stays allocated and none is
\* released twice, the speculative segments discarded earlier included.
C13_TeardownSafety ==
    /\ NoLeakNoDoubleRelease
    /\ dpc # "alive" => IsPrefix(dropped, Chain)
    /\ dpc \in {"unwind", "gone"} => dropped = Chain
    /\ NoRepeat(released)
    /\ dpc = "unwind" => released \o Reverse(dstack) = Reverse(Chain)
    /\ dpc = "gone" => released = Reverse(Chain)

\* A container of three linked segments has been destroyed, a speculative
\* segment having been discarded while it was alive.
C13_Witness ==
    /\ dpc = "gone"
    /\ ChainLen = 3
    /\ Len(released) = 3
    /\ \E n \in Nodes \ Linked : mem[n] = "freed"

\* ------------------------------------------------------------ claims C14 - C16

\* The segments some segment's next points to.
LinkTargets == {next[p] : p \in Segs} \ {Null}

\* The segments whose next points to s.
Predecessors(s) == {p \in Segs : next[p] = s}

\* C14: chain shape.  In every reachable state the chain starts at the head,
\* which is no segment's successor; it ends at a null next (no cycle, no
\* segment twice); every linked segment but the head has exactly one
\* predecessor and no two segments have the same successor; exactly one
\* linked segment has a null next; and every segment that is some segment's
\* successor is on the chain from the head.
C14_ChainShape ==
    /\ ChainLen >= 1
    /\ Chain[1] = head
    /\ Predecessors(head) = {}
    /\ NoRepeat(Chain)
    /\ next[Chain[ChainLen]] = Null
    /\ \A s \in Linked \ {head} : Cardinality(Predecessors(s)) = 1
    /\ \A p, q \in Segs : (p # q /\ next[p] # Null) => next[p] # next[q]
    /\ Cardinality({s \in Linked : next[s] = Null}) = 1
    /\ LinkTargets \cup {head} = Linked

\* The chain has three segments, linked while a thread lost a race and
\* discarded its own.
C14_Witness ==
    /\ ChainLen = 3
    /\ \E n \in Nodes \ Linked : mem[n] = "freed"

\* The element slots reachable from the head: the slots of its items array
\* and of every segment reached by following next.
ReachableSlots == UNION {{<<s, i>> : i \in DOMAIN items[s]} : s \in Linked}

\* C15: monotone size.  At every instant the slots reachable from the head
\* are N per linked segment; and no step removes a segment from the chain or
\* a slot from a segment: the chain before a step is a prefix of the chain
\* after it, and the count does not decrease.
C15_MonotoneSize ==
    /\ [](/\ \A s \in Linked : DOMAIN items[s] = Slots
          /\ Cardinality(ReachableSlots) = N * ChainLen
          /\ Len(ChainSlots) = N * ChainLen
          /\ NoRepeat(ChainSlots))
    /\ [][/\ IsPrefix(Chain, Chain')
          /\ Cardinality(ReachableSlots') >= Cardinality(ReachableSlots)
          /\ \A s \in Linked : DOMAIN items'[s] = DOMAIN items[s]]_vars

\* Two segments have been linked to the head: 3 N slots.
C15_Witness ==
    /\ ChainLen = 3
    /\ Len(ChainSlots) = 3 * N
    /\ \E t \in Threads : pc[t] = "done"

\* The moves of a call's position that leave it in the same segment, and
\* those that take it to another.  No sequence of staying moves passes
\* twice through the load, the allocation or the compare_exchange.
StayMoves ==
    {<<"scan", "scan">>, <<"scan", "load">>, <<"scan", "done">>,
     <<"load", "alloc">>, <<"alloc", "cas">>, <<"cas", "dealloc">>}

AdvanceMoves == {<<"load", "scan">>, <<"cas", "scan">>, <<"dealloc", "scan">>}

\* The heap segments whose allocation state a step changes.
Reallocated == {n \in Nodes : mem'[n] # mem[n]}

\* C16: bounded retries.  A running call moves only along StayMoves within
\* its segment and along AdvanceMoves to the segment's successor in the
\* chain, never back: so in each segment it visits it loads next once,
\* allocates at most one speculative segment and attempts at most one
\* compare_exchange.  A successful compare_exchange takes it to the segment
\* it linked; a failed one returns the successor that was linked, and the
\* call releases its own segment and advances to that successor without
\* another attempt.
C16_BoundedRetries ==
    [][\A t \in Threads : (Running(t) /\ <<pc[t], curr[t]>> # <<pc'[t], curr'[t]>>) =>
          /\ IF curr'[t] = curr[t]
             THEN <<pc[t], pc'[t]>> \in StayMoves
             ELSE /\ <<pc[t], pc'[t]>> \in AdvanceMoves
                  /\ curr'[t] = next'[curr[t]]
                  /\ PosOf(curr[t]) >= 1
                  /\ PosOf(curr[t])' = PosOf(curr[t]) + 1
          /\ pc[t] = "alloc" =>
                /\ Cardinality(Reallocated) = 1
                /\ Reallocated = {new_node'[t]}
                /\ next[curr[t]] = next'[curr[t]]
          /\ pc[t] = "cas" =>
                IF next[curr[t]] = Null
                THEN pc'[t] = "scan" /\ curr'[t] = new_node[t]
                ELSE /\ pc'[t] = "dealloc"
                     /\ actual'[t] = next[curr[t]]
                     /\ actual'[t] \in Linked \ {head}
                     /\ next' = next
          /\ pc[t] = "dealloc" =>
                /\ curr'[t] = actual[t]
                /\ curr'[t] # new_node[t]
                /\ Reallocated = {new_node[t]}
                /\ mem'[new_node[t]] = "freed"
                /\ next' = next]_vars

\* A call whose compare_exchange failed has released its segment and is at
\* the start of the successor another thread linked.
C16_Witness ==
    \E t \in Threads : \E n \in Nodes :
        /\ mem[n] = "freed"
        /\ pc[t] = "scan"
        /\ idx[t] = 0
        /\ PosOf(curr[t]) = 2
        /\ Len(examined[t]) = N
        /\ \A u \in Threads \ {t} : curr[u] # head

\* ------------------------------------------------------------ claims C17 - C19

\* The slot values of the chain, in iteration order.
ChainValues == [k \in 1..Len(ChainSlots) |-> items[ChainSlots[k][1]][ChainSlots[k][2]]]

\* C17: no over-growth per call.  A call links a segment only at the tail and
\* only when it has applied its predicate to every slot of the chain, the
\* segments it linked before included, and none of them matches: the link is
\* needed to reach a matching slot.  It continues at the first slot of the
\* segment it linked.  A call returns from the segment it is in, at the
\* first slot that matched, holding no unlinked segment, and takes no step
\* after it (so it links nothing beyond the segment it returned from); and
\* the tail of a grown chain is a segment some call is in or returned from.
C17_NoOverGrowth ==
    /\ [][\A t \in Threads :
            /\ (pc[t] = "cas" /\ pc'[t] # "cas" /\ next'[curr[t]] # next[curr[t]]) =>
                  /\ curr[t] = Chain[ChainLen]
                  /\ examined[t] = ChainSlots
                  /\ \A k \in 1..Len(ChainValues) : ~Matches(pred[t], ChainValues[k])
                  /\ Chain' = Append(Chain, new_node[t])
                  /\ pc'[t] = "scan" /\ curr'[t] = new_node[t] /\ idx'[t] = 0
            /\ (pc[t] # "done" /\ pc'[t] = "done") =>
                  /\ result'[t] = <<curr[t], idx[t]>>
                  /\ examined'[t] = SubSeq(ChainSlots, 1, Len(examined[t]) + 1)
                  /\ result'[t] = examined'[t][Len(examined'[t])]
                  /\ new_node[t] = Null
                  /\ next' = next
            /\ pc[t] = "done" => (pc'[t] = "done" /\ curr'[t] = curr[t])]_vars
    /\ [](ChainLen >= 2 => \E t \in Threads : curr[t] = Chain[ChainLen])

\* A call found the head full, linked a segment and returned from the first
\* slot of that segment; it was the only call to go beyond the head.
C17_Witness ==
    \E t \in Threads :
        /\ pc[t] = "done"
        /\ ChainLen = 2
        /\ result[t] = <<Chain[2], 0>>
        /\ \A n \in Nodes \ {Chain[2]} : mem[n] = "unalloc"
        /\ \A u \in Threads \ {t} : pc[u] = "idle" \/ (pc[u] = "done" /\ result[u][1] = head)

\* The segments that are allocated: the head and the live heap segments.
Allocated == {head} \cup {n \in Nodes : mem[n] = "live"}

\* C18: frame of the two operations.  A step changes the next of an allocated
\* segment only as the compare_exchange of a call at that segment, which is
\* the tail: from null to the call's new segment.  A step changes a slot of
\* an allocated segment only as the predicate of a call applied to that
\* slot.  No step releases a linked segment.  A step of iter (the call, the
\* walk, the consumption) changes no next, no slot and no allocation.
C18_Frame ==
    [][/\ \A s \in Allocated : next'[s] # next[s] =>
             \E t \in Threads :
                /\ pc[t] = "cas" /\ curr[t] = s
                /\ s = Chain[ChainLen]
                /\ next[s] = Null
                /\ next'[s] = new_node[t]
                /\ items' = items
       /\ \A s \in Allocated : \A i \in Slots : items'[s][i] # items[s][i] =>
             \E t \in Threads :
                /\ pc[t] = "scan" /\ curr[t] = s /\ idx[t] = i
                /\ items'[s][i] = SlotAfter(pred[t], items[s][i])
                /\ \A r \in Segs : \A j \in Slots :
                      <<r, j>> # <<s, i>> => items'[r][j] = items[r][j]
                /\ next' = next
       /\ \A s \in Linked \ {head} : mem'[s] = mem[s]
       /\ iterVars' # iterVars => heapVars' = heapVars /\ callVars' = callVars]_vars

\* A call has linked a segment, a claim predicate has written a slot, and an
\* iterator has walked the grown chain to its end.
C18_Witness ==
    /\ ipc = "end"
    /\ Len(iters) >= 2
    /\ ChainLen >= 2
    /\ \E s \in Linked : \E i \in Slots : items[s][i] = TRUE

\* p may be dereferenced: it is not null, it is a segment linked in the
\* chain, and its storage has not been released.
Valid(p) ==
    /\ p # Null
    /\ p \in Linked
    /\ p = head \/ mem[p] = "live"

\* C19: no dangling or null dereference while the container is alive.  The
\* segment a running call reads (curr.items, curr.next) is valid; the value
\* a failed compare_exchange returned, which the call dereferences next, is
\* not null and valid; the segment the walk of iter is about to read and
\* those whose slots the iterator refers to are valid.  A segment is
\* released only by the call that allocated it, while it is unlinked and no
\* other thread, link or iterator refers to it; and a released segment is
\* never linked or referred to afterwards.
C19_NoDanglingDeref ==
    /\ [](\A t \in Threads : Running(t) => Valid(curr[t]))
    /\ [](\A t \in Threads : pc[t] = "dealloc" =>
             /\ Valid(actual[t])
             /\ actual[t] = next[curr[t]]
             /\ mem[new_node[t]] = "live")
    /\ [](ipc = "walk" /\ icurr # Null => Valid(icurr))
    /\ [](\A s \in Collected : Valid(s))
    /\ [](\A k \in 1..Len(yielded) : Valid(yielded[k][1]))
    /\ [](\A n \in Nodes : mem[n] = "freed" => n \notin Linked /\ Unseen(n))
    /\ [][\A n \in Nodes : (mem[n] = "live" /\ mem'[n] = "freed") =>
             /\ n \notin Linked
             /\ Holders(n) = {t \in Threads : pc[t] = "dealloc" /\ pc'[t] # "dealloc"}
             /\ Cardinality(Holders(n)) = 1
             /\ Unseen(n)]_vars

\* A call that lost a race has released its segment and scans the linked
\* successor, while the walk of iter is about to read a linked segment.
C19_Witness ==
    /\ \E n \in Nodes : mem[n] = "freed"
    /\ \E t \in Threads : pc[t] = "scan" /\ curr[t] # head /\ new_node[t] = Null
    /\ ipc = "walk"
    /\ icurr # Null

=============================================================================
